---- MODULE Spec2Model ----
(***************************************************************************)
(* Model of the PHI detector: the document-to-findings pipeline of         *)
(* src/main.py (router, extractors, PHI Identifier, PHI Rationale,         *)
(* run_flow) and the span resolver highlight_phi_instances of              *)
(* src/streamlit_app.py.                                                   *)
(*                                                                         *)
(* Strings are sequences of one-character strings (or of larger literal    *)
(* pieces where the code concatenates literals).  A service response body  *)
(* is a sequence of lexical tokens: "[", "]", ",", " " (whitespace),       *)
(* "prose" (text that is no JSON and holds no bracket) and object tokens,  *)
(* each standing for one JSON object {...}.  A Python dict is a function   *)
(* from its string keys.                                                   *)
(***************************************************************************)
EXTENDS Integers, Sequences, FiniteSets, TLC

VARIABLES
    pc,             \* node of the graph the run is at (src/main.py:175-190)
    doc_state,      \* docState: input, file_ext, text, instances, exclude_filter
    content,        \* response.content between llm.invoke and the parser
    llm_calls,      \* every llm.invoke made, in order: the node and what it sent
    visited,        \* the nodes executed so far, in order
    shapes,         \* the shape of each response body parsed so far, in order
    raised,         \* the exception that aborted the run, or "none"
    result,         \* what run_flow returned: <<orig_text, phi_instances>>
    hl              \* locals of highlight_phi_instances (src/streamlit_app.py:164)

vars == <<pc, doc_state, content, llm_calls, visited, shapes, raised, result, hl>>

pipeline_vars == <<pc, doc_state, content, llm_calls, visited, shapes, raised, result>>

(***************************************************************************)
(* Bounds of the model.                                                    *)
(***************************************************************************)
MaxContentLen == 3      \* tokens in a service response body
MaxTextLen == 3         \* characters in the text handed to the resolver
MaxFindings == 2        \* Findings in the list handed to the resolver

(***************************************************************************)
(* Generic helpers on sequences.                                           *)
(***************************************************************************)
SeqsUpTo(S, n) == UNION {[1..k -> S] : k \in 0..n}

Last(s) == s[Len(s)]

Min(S) == CHOOSE x \in S : \A y \in S : x <= y

RECURSIVE Concat(_)
Concat(ss) == IF ss = <<>> THEN <<>> ELSE Head(ss) \o Concat(Tail(ss))

None == <<"None">>

(***************************************************************************)
(* Python string operations, on sequences; offsets are 0-based as in the   *)
(* code.                                                                   *)
(***************************************************************************)
Whitespace == {" ", "\n"}

RECURSIVE lstrip(_)
lstrip(s) == IF s # <<>> /\ Head(s) \in Whitespace THEN lstrip(Tail(s)) ELSE s

RECURSIVE rstrip(_)
rstrip(s) ==
    IF s # <<>> /\ Last(s) \in Whitespace
    THEN rstrip(SubSeq(s, 1, Len(s) - 1))
    ELSE s

\* str.strip()
strip(s) == rstrip(lstrip(s))

\* s[a:b] for 0 <= a and b <= len(s)
slice(s, a, b) == SubSeq(s, a + 1, b)

\* s.startswith(sub)
startswith(s, sub) == Len(s) >= Len(sub) /\ slice(s, 0, Len(sub)) = sub

\* The offsets p >= start at which sub occurs in s.
occurrences(s, sub, start) ==
    {p \in start..(Len(s) - Len(sub)) : slice(s, p, p + Len(sub)) = sub}

\* s.find(sub, start): the lowest such offset, or -1.
find(s, sub, start) ==
    IF occurrences(s, sub, start) = {} THEN -1
    ELSE Min(occurrences(s, sub, start))

\* s.rfind(sub): the highest offset at which sub occurs, or -1.
rfind(s, sub) ==
    IF occurrences(s, sub, 0) = {} THEN -1
    ELSE CHOOSE p \in occurrences(s, sub, 0) :
             \A q \in occurrences(s, sub, 0) : q <= p

\* s.replace("\n", " ")
replace_newlines(s) == [i \in 1..Len(s) |-> IF s[i] = "\n" THEN " " ELSE s[i]]

(***************************************************************************)
(* json.loads on a token sequence.  Whitespace tokens are insignificant;   *)
(* a value is an object token or an array "[" value ("," value)* "]"; the  *)
(* whole input must be one value.  An object parses to its dict, an array  *)
(* to the dict-like wrapper ("array" :> <<elements>>), so that the         *)
(* elements of a parsed list are all functions of string keys.             *)
(***************************************************************************)
finding_d == ("type" :> "Names" @@ "value" :> <<"a">> @@ "start" :> 0 @@ "end" :> 1)

JsonObject(tok) ==
    CASE tok = "d" -> finding_d
      [] tok = "c" -> finding_d @@ ("PHI type" :> "Names"
                                    @@ "PHI risk rationale" :> "identifies the patient")
      [] tok = "n" -> finding_d @@ ("PHI type" :> "none"
                                    @@ "PHI risk rationale" :> "no risk")

ObjectTokens == {"d", "c", "n"}

Tokens == {"[", "]", ",", " ", "prose"} \cup ObjectTokens

Responses == SeqsUpTo(Tokens, MaxContentLen)

JsonArray(elems) == ("array" :> elems)

JsonFail == [ok |-> FALSE, val |-> JsonArray(<<>>), next |-> 0]

RECURSIVE parse_value(_, _)
RECURSIVE parse_elements(_, _, _)
parse_value(s, i) ==
    IF i > Len(s) THEN JsonFail
    ELSE IF s[i] \in ObjectTokens
    THEN [ok |-> TRUE, val |-> JsonObject(s[i]), next |-> i + 1]
    ELSE IF s[i] = "["
    THEN IF i + 1 <= Len(s) /\ s[i + 1] = "]"
         THEN [ok |-> TRUE, val |-> JsonArray(<<>>), next |-> i + 2]
         ELSE parse_elements(s, i + 1, <<>>)
    ELSE JsonFail

parse_elements(s, i, acc) ==
    LET r == parse_value(s, i) IN
    IF ~r.ok \/ r.next > Len(s) THEN JsonFail
    ELSE IF s[r.next] = ","
    THEN parse_elements(s, r.next + 1, Append(acc, r.val))
    ELSE IF s[r.next] = "]"
    THEN [ok |-> TRUE, val |-> JsonArray(Append(acc, r.val)), next |-> r.next + 1]
    ELSE JsonFail

\* json.loads(s): ok is FALSE where the code's json.loads raises.
json_loads(s) ==
    LET t == SelectSeq(s, LAMBDA x : x # " ")
        r == parse_value(t, 1)
    IN  IF r.ok /\ r.next = Len(t) + 1
        THEN [ok |-> TRUE, val |-> r.val]
        ELSE [ok |-> FALSE, val |-> JsonArray(<<>>)]

\* The Python list of a parsed JSON array.
as_list(v) == v["array"]

(***************************************************************************)
(* The pipeline of src/main.py.                                            *)
(***************************************************************************)

\* The raw payload, given by what each decoder makes of it: whether it
\* decodes at all, and its lines (the lines an OCR pass recognises, the text
\* of each page with None for a page without text, the header and the
\* rows of a table with one character per cell).
Payloads ==
    { [decodable |-> FALSE, lines |-> <<>>],
      [decodable |-> TRUE,  lines |-> <<>>],
      [decodable |-> TRUE,  lines |-> << <<"c">>, None, <<"a", " ">> >>] }

FileExts == {"png", "pdf", "csv", "txt", "docx"}

\* Values of exclude_filter (a list of category names).
Filters ==
    { <<>>, <<"Names">>, <<"Names", "Telephone numbers">>,
      <<"Fax numbers", "Names", "Email addresses">> }

phi_ref_list ==
    << "Social Security numbers", "Medical record numbers, health plan numbers",
       "Account numbers", "Biometric identifiers (finger/voice prints)", "Names",
       "Full face photographic/comparable images", "Dates (except year), ages >89",
       "Geographic subdivisions < state", "Certificate/license numbers",
       "Vehicle identifiers", "Device identifiers", "Telephone numbers",
       "Fax numbers", "Email addresses", "Web URLs, IP addresses",
       "Any other unique identifying number/code" >>

\* Mutant of input_router: an unknown tag falls through to the OCR node.
input_router_default_ocr(file_ext) ==
    IF file_ext = "pdf" THEN "PDF Parser"
    ELSE IF file_ext = "csv" THEN "CSV Parser"
    ELSE "OCR"

\* input_router: the node the conditional edge from START selects, or
\* "ValueError" where it raises.
input_router(file_ext) ==
    IF file_ext = "png" THEN "OCR"
    ELSE IF file_ext = "pdf" THEN "PDF Parser"
    ELSE IF file_ext = "csv" THEN "CSV Parser"
    ELSE "ValueError"

page_text(line) == IF line = None THEN <<>> ELSE line

\* pytesseract.image_to_string: the recognised lines, each ended by a newline.
image_to_string(input) ==
    Concat([i \in 1..Len(input.lines) |-> page_text(input.lines[i]) \o <<"\n">>])

\* ocr_tool: strip, then newlines to spaces.
ocr_text(input) == replace_newlines(strip(image_to_string(input)))

\* pdf_parser_tool: text += page.extract_text() or ""
pdf_text(input) ==
    Concat([i \in 1..Len(input.lines) |-> page_text(input.lines[i])])

\* csv_parser_tool: one block per record; the first line of the payload is the
\* header, pd.read_csv raises on a payload without one.
csv_decodable(input) == input.decodable /\ input.lines # <<>>

csv_row(columns, row, index) ==
    <<"Index: ", ToString(index), "\n">>
    \o Concat([k \in 1..(IF Len(row) < Len(columns) THEN Len(row) ELSE Len(columns))
                  |-> <<columns[k], ": ", row[k], "\n">>])
    \o <<"\n">>

csv_text(input) ==
    LET columns == page_text(input.lines[1])
        rows == Tail(input.lines)
    IN  Concat([r \in 1..Len(rows) |-> csv_row(columns, page_text(rows[r]), r - 1)])

\* get_exclusion: the clause the filter adds to the Detection prompt.
get_exclusion(filter_list) ==
    IF filter_list = <<>> THEN <<>>
    ELSE <<" except PHI instances of the type">>
         \o Concat([i \in 1..(Len(filter_list) - 1) |-> <<" ", filter_list[i], ",">>])
         \o (IF Len(filter_list) > 1 THEN <<" and">> ELSE <<>>)
         \o <<" ", Last(filter_list), ".">>

\* The prompt phi_identifier sends.
phi_identifier_prompt(ds) ==
    [node |-> "PHI Identifier",
     exclusion |-> get_exclusion(ds.exclude_filter),
     text |-> ds.text]

\* The prompt phi_rationale sends.
phi_rationale_prompt(ds) ==
    [node |-> "PHI Rationale",
     ref_list |-> phi_ref_list,
     instances |-> Last(ds.instances)]

\* The part of a response body from its first "[" to its last "]".
bracketed(c) == slice(c, find(c, <<"[">>, 0), rfind(c, <<"]">>) + 1)

\* What a response body is, for the parser of lines 118-127 and 152-161: an
\* array, an array inside other text, text without a bracketed part, or text
\* whose bracketed part is no JSON.
response_shape(c) ==
    IF startswith(strip(c), <<"[">>)
    THEN IF json_loads(strip(c)).ok THEN "array" ELSE "unparseable"
    ELSE IF find(c, <<"[">>, 0) < 0 \/ rfind(c, <<"]">>) < find(c, <<"[">>, 0)
    THEN "no array"
    ELSE IF json_loads(bracketed(c)).ok THEN "embedded array" ELSE "unparseable"

Malformed == {"no array", "unparseable"}

\* The array a response body of shape "array" or "embedded array" holds.
response_array(c) ==
    as_list(json_loads(IF response_shape(c) = "array"
                       THEN strip(c) ELSE bracketed(c)).val)

\* Mutant of phi_identifier_entry: Findings of an excluded type are dropped
\* from the parsed list.
phi_identifier_entry_postfilter(c, exclude_filter) ==
    LET parsed ==
            IF response_shape(c) \in Malformed THEN <<>>
            ELSE response_array(c)
    IN  SelectSeq(parsed, LAMBDA f :
            ~("type" \in DOMAIN f
              /\ \E k \in 1..Len(exclude_filter) : exclude_filter[k] = f["type"]))

\* phi_identifier, lines 118-130: the entry its parser appends for response
\* body c.  The filter is not read here.
phi_identifier_entry(c, exclude_filter) ==
    IF startswith(strip(c), <<"[">>)
    THEN LET r == json_loads(strip(c))
         IN  IF r.ok THEN as_list(r.val) ELSE <<>>
    ELSE LET json_start == find(c, <<"[">>, 0)
             json_end == rfind(c, <<"]">>) + 1
         IN  IF json_start >= 0 /\ json_end > json_start
             THEN LET r == json_loads(slice(c, json_start, json_end))
                  IN  IF r.ok THEN as_list(r.val) ELSE <<>>
             ELSE <<>>

\* Mutant of phi_rationale_entry: the fallbacks of phi_identifier, an empty
\* list wherever no array is parsed.
phi_rationale_entry_empty(c, instances) ==
    IF response_shape(c) \in Malformed THEN <<>>
    ELSE response_array(c)

\* Mutant of phi_rationale_entry: the except handler appends an empty list.
phi_rationale_entry_except_empty(c, instances) ==
    IF response_shape(c) = "unparseable" THEN <<>>
    ELSE IF response_shape(c) = "no array" THEN Last(instances)
    ELSE response_array(c)

\* phi_rationale, lines 150-164: the entry its parser appends for response
\* body c, given the history so far.
phi_rationale_entry(c, instances) ==
    LET s == strip(c) IN
    IF startswith(strip(s), <<"[">>)
    THEN LET r == json_loads(s)
         IN  IF r.ok THEN as_list(r.val) ELSE Last(instances)
    ELSE LET json_start == find(s, <<"[">>, 0)
             json_end == rfind(s, <<"]">>) + 1
         IN  IF json_start >= 0 /\ json_end > json_start
             THEN LET r == json_loads(slice(s, json_start, json_end))
                  IN  IF r.ok THEN as_list(r.val) ELSE Last(instances)
             ELSE Last(instances)

\* The locals of highlight_phi_instances before it is called.
hl_idle ==
    [pc |-> "idle", text |-> <<>>, phi_instances |-> <<>>, i |-> 0,
     value |-> <<>>, search_start |-> 0, instances_with_positions |-> <<>>,
     highlighted_text |-> <<>>, n |-> 0]

\* run_flow, line 195: the docState it builds.
Init ==
    /\ pc = "START"
    /\ doc_state \in [input : Payloads, file_ext : FileExts, text : {<<>>},
                      instances : {<<>>}, exclude_filter : Filters]
    /\ content = <<>>
    /\ llm_calls = <<>>
    /\ visited = <<>>
    /\ shapes = <<>>
    /\ raised = "none"
    /\ result = <<>>
    /\ hl = hl_idle

\* The conditional edge from START.
route ==
    /\ pc = "START"
    /\ visited' = Append(visited, "input_router")
    /\ IF input_router(doc_state.file_ext) = "ValueError"
       THEN pc' = "aborted" /\ raised' = "ValueError"
       ELSE pc' = input_router(doc_state.file_ext) /\ raised' = raised
    /\ UNCHANGED <<doc_state, content, llm_calls, shapes, result, hl>>

\* An extractor node: writes text, or the decoder raises.
extract(node, decodable, text) ==
    /\ pc = node
    /\ visited' = Append(visited, node)
    /\ IF decodable
       THEN /\ doc_state' = [doc_state EXCEPT !.text = text]
            /\ pc' = "PHI Identifier"
            /\ raised' = raised
       ELSE /\ doc_state' = doc_state
            /\ pc' = "aborted"
            /\ raised' = "DecodeError"
    /\ UNCHANGED <<content, llm_calls, shapes, result, hl>>

ocr_tool ==
    extract("OCR", doc_state.input.decodable, ocr_text(doc_state.input))

pdf_parser_tool ==
    extract("PDF Parser", doc_state.input.decodable, pdf_text(doc_state.input))

csv_parser_tool ==
    extract("CSV Parser", csv_decodable(doc_state.input),
            IF csv_decodable(doc_state.input) THEN csv_text(doc_state.input) ELSE <<>>)

\* phi_identifier up to line 116: the prompt is sent and a response body
\* comes back.
phi_identifier_invoke ==
    /\ pc = "PHI Identifier"
    /\ visited' = Append(visited, "PHI Identifier")
    /\ llm_calls' = Append(llm_calls, phi_identifier_prompt(doc_state))
    /\ \E c \in Responses : content' = c
    /\ pc' = "PHI Identifier: parse"
    /\ UNCHANGED <<doc_state, shapes, raised, result, hl>>

\* Mutant of phi_identifier_parse: the except handler passes, appending
\* nothing.
phi_identifier_parse_except_pass ==
    /\ pc = "PHI Identifier: parse"
    /\ doc_state' =
           IF response_shape(content) = "unparseable" THEN doc_state
           ELSE [doc_state EXCEPT !.instances =
                    Append(@, phi_identifier_entry(content, doc_state.exclude_filter))]
    /\ shapes' = Append(shapes, response_shape(content))
    /\ content' = <<>>
    /\ pc' = "PHI Rationale"
    /\ UNCHANGED <<llm_calls, visited, raised, result, hl>>

\* Mutant of phi_identifier_parse: an empty result is retried.
phi_identifier_parse_retry ==
    /\ pc = "PHI Identifier: parse"
    /\ doc_state' = [doc_state EXCEPT !.instances =
           Append(@, phi_identifier_entry(content, doc_state.exclude_filter))]
    /\ shapes' = Append(shapes, response_shape(content))
    /\ content' = <<>>
    /\ pc' = IF phi_identifier_entry(content, doc_state.exclude_filter) = <<>>
             /\ Len(doc_state.instances) = 0
             THEN "PHI Identifier" ELSE "PHI Rationale"
    /\ UNCHANGED <<llm_calls, visited, raised, result, hl>>

\* phi_identifier from line 118: exactly one entry is appended.
phi_identifier_parse ==
    /\ pc = "PHI Identifier: parse"
    /\ doc_state' = [doc_state EXCEPT !.instances =
           Append(@, phi_identifier_entry(content, doc_state.exclude_filter))]
    /\ shapes' = Append(shapes, response_shape(content))
    /\ content' = <<>>
    /\ pc' = "PHI Rationale"
    /\ UNCHANGED <<llm_calls, visited, raised, result, hl>>

\* phi_rationale up to line 150.
phi_rationale_invoke ==
    /\ pc = "PHI Rationale"
    /\ visited' = Append(visited, "PHI Rationale")
    /\ llm_calls' = Append(llm_calls, phi_rationale_prompt(doc_state))
    /\ \E c \in Responses : content' = c
    /\ pc' = "PHI Rationale: parse"
    /\ UNCHANGED <<doc_state, shapes, raised, result, hl>>

\* phi_rationale from line 152, with the history overwritten by the new
\* entry in place of the append of lines 158, 161 and 164.
phi_rationale_parse_overwrite ==
    /\ pc = "PHI Rationale: parse"
    /\ doc_state' = [doc_state EXCEPT !.instances =
           <<phi_rationale_entry(content, doc_state.instances)>>]
    /\ shapes' = Append(shapes, response_shape(content))
    /\ content' = <<>>
    /\ pc' = "END"
    /\ UNCHANGED <<llm_calls, visited, raised, result, hl>>

\* phi_rationale from line 152.
phi_rationale_parse ==
    /\ pc = "PHI Rationale: parse"
    /\ doc_state' = [doc_state EXCEPT !.instances =
           Append(@, phi_rationale_entry(content, doc_state.instances))]
    /\ shapes' = Append(shapes, response_shape(content))
    /\ content' = <<>>
    /\ pc' = "END"
    /\ UNCHANGED <<llm_calls, visited, raised, result, hl>>

\* llm.invoke raises (transport failure): nothing catches it.
llm_invoke_raises ==
    /\ pc \in {"PHI Identifier", "PHI Rationale"}
    /\ visited' = Append(visited, pc)
    /\ llm_calls' = Append(llm_calls,
           IF pc = "PHI Identifier" THEN phi_identifier_prompt(doc_state)
           ELSE phi_rationale_prompt(doc_state))
    /\ raised' = "TransportError"
    /\ pc' = "aborted"
    /\ UNCHANGED <<doc_state, content, shapes, result, hl>>

\* run_flow, lines 196-206: the last entry is a list on every path, so the
\* extract_dict branch is not taken.
run_flow_return ==
    /\ pc = "END"
    /\ result' = <<doc_state.text, Last(doc_state.instances)>>
    /\ pc' = "returned"
    /\ UNCHANGED <<doc_state, content, llm_calls, visited, shapes, raised, hl>>

Next ==
    \/ route
    \/ ocr_tool
    \/ pdf_parser_tool
    \/ csv_parser_tool
    \/ phi_identifier_invoke
    \/ phi_identifier_parse
    \/ phi_rationale_invoke
    \/ phi_rationale_parse
    \/ llm_invoke_raises
    \/ run_flow_return

Spec == Init /\ [][Next]_vars

(***************************************************************************)
(* The span resolver: highlight_phi_instances, src/streamlit_app.py:164.   *)
(* hl holds its locals; a span of instances_with_positions also carries i, *)
(* the position in phi_instances of the Finding it was accepted for.       *)
(***************************************************************************)
Chars == {"a", "b", " "}

Texts == SeqsUpTo(Chars, MaxTextLen)

\* The start/end a Finding may claim.
ClaimedOffsets == {<<0, 1>>, <<1, 3>>}

Finding(value, claimed) ==
    ("type" :> "name" @@ "PHI type" :> "Names" @@ "value" :> value
     @@ "start" :> claimed[1] @@ "end" :> claimed[2])

\* The values the Findings of the model carry: empty, present or absent in a
\* text, overlapping one another, and with whitespace around or alone.
Values ==
    { <<>>, <<"a">>, <<"b">>, <<"a", "a">>, <<"a", "b">>, <<"b", "a">>,
      <<" ", "a">>, <<"a", " ">>, <<" ">> }

\* The Finding lists of the model; the Findings of one list claim the same
\* offsets, right for some values and texts and wrong for others.
FindingLists ==
    { [k \in 1..Len(vs) |-> Finding(vs[k], c)] :
          vs \in SeqsUpTo(Values, MaxFindings), c \in ClaimedOffsets }

\* instance.get('PHI type', instance.get('type', 'Unknown'))
phi_type_of(instance) ==
    IF "PHI type" \in DOMAIN instance THEN instance["PHI type"]
    ELSE IF "type" \in DOMAIN instance THEN instance["type"]
    ELSE "Unknown"

\* 'value' in instance and instance['value']
has_value(instance) == "value" \in DOMAIN instance /\ instance["value"] # <<>>

\* Mutant of covers: only a candidate that starts inside the accepted span
\* counts.
covers_start_inside(pos, value, existing) ==
    pos >= existing.start /\ pos < existing.end

\* Line 192: the test of a candidate at pos against one accepted span.
covers(pos, value, existing) ==
    ~(pos >= existing.end \/ pos + Len(value) <= existing.start)

\* Lines 190-194.
overlapping(pos, value, instances_with_positions) ==
    \E k \in 1..Len(instances_with_positions) :
        covers(pos, value, instances_with_positions[k])

\* Lines 166-175: the locals as the loop is entered, or the early return.
hl_call(text, phi_instances) ==
    [pc |-> IF phi_instances = <<>> THEN "return" ELSE "for",
     text |-> text, phi_instances |-> phi_instances, i |-> 0,
     value |-> <<>>, search_start |-> 0, instances_with_positions |-> <<>>,
     highlighted_text |-> text, n |-> 0]

\* Mutant of for_step: the search starts at the offset the Finding claims.
for_step_claimed_start(h) ==
    IF h.i = Len(h.phi_instances) THEN [h EXCEPT !.pc = "sort"]
    ELSE LET instance == h.phi_instances[h.i + 1] IN
         IF has_value(instance)
         THEN [h EXCEPT !.i = h.i + 1, !.pc = "while",
                        !.value = strip(instance["value"]),
                        !.search_start = instance["start"]]
         ELSE [h EXCEPT !.i = h.i + 1]

\* Lines 177-183: the for loop takes the next Finding.
for_step(h) ==
    IF h.i = Len(h.phi_instances) THEN [h EXCEPT !.pc = "sort"]
    ELSE LET instance == h.phi_instances[h.i + 1] IN
         IF has_value(instance)
         THEN [h EXCEPT !.i = h.i + 1, !.pc = "while",
                        !.value = strip(instance["value"]), !.search_start = 0]
         ELSE [h EXCEPT !.i = h.i + 1]

\* The span accepted for the Finding at hand, at pos.
accepted_span(h, pos) ==
    [start |-> pos, end |-> pos + Len(h.value), value |-> h.value,
     phi_type |-> phi_type_of(h.phi_instances[h.i]),
     original_instance |-> h.phi_instances[h.i], i |-> h.i]

\* Mutant of while_step: a value that is not found ends the whole loop over
\* the Findings.
while_step_return(h) ==
    LET pos == find(h.text, h.value, h.search_start) IN
    IF pos = -1 THEN [h EXCEPT !.pc = "sort"]
    ELSE IF overlapping(pos, h.value, h.instances_with_positions)
    THEN [h EXCEPT !.search_start = pos + 1]
    ELSE [h EXCEPT !.pc = "for",
                   !.instances_with_positions = Append(@, accepted_span(h, pos))]

\* Mutant of while_step: after a conflict the search resumes behind the
\* conflicting candidate.
while_step_skip_candidate(h) ==
    LET pos == find(h.text, h.value, h.search_start) IN
    IF pos = -1 THEN [h EXCEPT !.pc = "for"]
    ELSE IF overlapping(pos, h.value, h.instances_with_positions)
    THEN [h EXCEPT !.search_start = pos + Len(h.value)]
    ELSE [h EXCEPT !.pc = "for",
                   !.instances_with_positions = Append(@, accepted_span(h, pos))]

\* Lines 184-206: one iteration of the while loop.
while_step(h) ==
    LET pos == find(h.text, h.value, h.search_start) IN
    IF pos = -1 THEN [h EXCEPT !.pc = "for"]
    ELSE IF overlapping(pos, h.value, h.instances_with_positions)
    THEN [h EXCEPT !.search_start = pos + 1]
    ELSE [h EXCEPT !.pc = "for",
                   !.instances_with_positions = Append(@, accepted_span(h, pos))]

\* Line 209: list.sort(key=start, reverse=True), a stable sort: x goes before
\* the first element whose start is smaller.
RECURSIVE insert_descending(_, _)
insert_descending(x, sorted) ==
    IF sorted = <<>> THEN <<x>>
    ELSE IF Head(sorted).start < x.start THEN <<x>> \o sorted
    ELSE <<Head(sorted)>> \o insert_descending(x, Tail(sorted))

RECURSIVE sort_descending(_)
sort_descending(spans) ==
    IF spans = <<>> THEN <<>>
    ELSE insert_descending(Last(spans),
                           sort_descending(SubSeq(spans, 1, Len(spans) - 1)))

sort_step(h) ==
    [h EXCEPT !.pc = "sorted",
              !.instances_with_positions = sort_descending(@)]

\* The characters of the strings the markup interpolates.
chars_of(str) ==
    CASE str = "Names" ->
           << "N", "a", "m", "e", "s" >>
      [] str = "name" ->
           << "n", "a", "m", "e" >>
      [] str = "Unknown" ->
           << "U", "n", "k", "n", "o", "w", "n" >>
      [] str = "none" ->
           << "n", "o", "n", "e" >>
      [] str = "identifies the patient" ->
           << "i", "d", "e", "n", "t", "i", "f", "i", "e", "s", " ", "t",
              "h", "e", " ", "p", "a", "t", "i", "e", "n", "t" >>
      [] str = "no risk" ->
           << "n", "o", " ", "r", "i", "s", "k" >>

span_open == << "<", "s", "p", "a", "n", " ", "c", "l", "a", "s", "s", "=",
             "\"", "p", "h", "i", "-", "h", "i", "g", "h", "l", "i", "g",
             "h", "t", "\"", " ", "t", "i", "t", "l", "e", "=", "\"" >>

tooltip_type == << "P", "H", "I", " ", "T", "y", "p", "e", ":", " " >>

tooltip_risk == << "&", "#", "1", "0", ";", "R", "i", "s", "k", ":", " " >>

span_open_end == << "\"", ">" >>

span_close == << "<", "/", "s", "p", "a", "n", ">" >>

\* Lines 219-221: tooltip_info of a span.
tooltip_info(span) ==
    tooltip_type \o chars_of(span.phi_type)
    \o (IF "PHI risk rationale" \in DOMAIN span.original_instance
        THEN tooltip_risk \o chars_of(span.original_instance["PHI risk rationale"])
        ELSE <<>>)

\* Line 224: highlighted_value of a span.
highlighted_value(span) ==
    span_open \o tooltip_info(span) \o span_open_end \o span.value \o span_close

\* Line 227: highlighted_text[:start] + highlighted_value + highlighted_text[end:]
\* (a Python slice stops at the end of the string).
splice(highlighted_text, span) ==
    LET len == Len(highlighted_text)
        start == IF span.start < len THEN span.start ELSE len
        end == IF span.end < len THEN span.end ELSE len
    IN  slice(highlighted_text, 0, start) \o highlighted_value(span)
        \o slice(highlighted_text, end, len)

\* Lines 212-227: one iteration of the loop over the sorted spans, or its end
\* and the return of line 229.
apply_step(h) ==
    IF h.n = Len(h.instances_with_positions) THEN [h EXCEPT !.pc = "return"]
    ELSE [h EXCEPT !.n = h.n + 1,
                   !.highlighted_text =
                       splice(@, h.instances_with_positions[h.n + 1])]

\* The loops of lines 177-206 run to their end from h.
RECURSIVE resolve(_)
resolve(h) ==
    IF h.pc = "for" /\ h.i < Len(h.phi_instances) THEN resolve(for_step(h))
    ELSE IF h.pc = "while" THEN resolve(while_step(h))
    ELSE h

\* The app calls highlight_phi_instances on what run_flow returned.
InitHighlight ==
    /\ pc = "returned"
    /\ result \in Texts \X FindingLists
    /\ doc_state = [input |-> [decodable |-> TRUE, lines |-> <<>>],
                    file_ext |-> "png", text |-> result[1],
                    instances |-> <<result[2], result[2]>>,
                    exclude_filter |-> <<>>]
    /\ content = <<>>
    /\ llm_calls = <<>>
    /\ visited = <<>>
    /\ shapes = <<>>
    /\ raised = "none"
    /\ hl = hl_idle

highlight_call ==
    /\ hl.pc = "idle"
    /\ hl' = hl_call(result[1], result[2])
    /\ UNCHANGED pipeline_vars

highlight_for ==
    /\ hl.pc = "for"
    /\ hl' = for_step(hl)
    /\ UNCHANGED pipeline_vars

highlight_while ==
    /\ hl.pc = "while"
    /\ hl' = while_step(hl)
    /\ UNCHANGED pipeline_vars

highlight_sort ==
    /\ hl.pc = "sort"
    /\ hl' = sort_step(hl)
    /\ UNCHANGED pipeline_vars

highlight_apply ==
    /\ hl.pc = "sorted"
    /\ hl' = apply_step(hl)
    /\ UNCHANGED pipeline_vars

NextHighlight ==
    \/ highlight_call
    \/ highlight_for
    \/ highlight_while
    \/ highlight_sort
    \/ highlight_apply

SpecHighlight == InitHighlight /\ [][NextHighlight]_vars

(***************************************************************************)
(* Claims about the pipeline, checked under Spec.                          *)
(***************************************************************************)
Range(f) == {f[x] : x \in DOMAIN f}

IsPrefix(s, t) == Len(s) <= Len(t) /\ SubSeq(t, 1, Len(s)) = s

\* Every element of a finding list carries a category of the taxonomy.
Categorised(list) ==
    \A k \in 1..Len(list) :
        /\ "PHI type" \in DOMAIN list[k]
        /\ list[k]["PHI type"] \in Range(phi_ref_list)
        /\ list[k]["PHI type"] # "none"

\* C2: findingsHistory has length 0 until Detection has returned, 1 from then
\* until Classification has returned and 2 afterwards, whatever the shape of
\* the response bodies: each parser run appends exactly one entry.
C2_HistoryLength ==
    /\ Len(shapes) = Len(doc_state.instances)
    /\ pc \in {"START", "OCR", "PDF Parser", "CSV Parser", "PHI Identifier",
               "PHI Identifier: parse"} => Len(doc_state.instances) = 0
    /\ pc \in {"PHI Rationale", "PHI Rationale: parse"}
           => Len(doc_state.instances) = 1
    /\ pc \in {"END", "returned"} => Len(doc_state.instances) = 2

\* Both stages have run on malformed responses and the history holds two
\* entries.
C2_Witness ==
    /\ pc = "END"
    /\ shapes = <<"unparseable", "no array">>
    /\ Len(doc_state.instances) = 2

\* C3: on a response that does not parse into an array, Detection appends an
\* empty list and Classification appends the prior entry, and neither raises:
\* one entry per response parsed, and a run aborted after a response was
\* parsed was aborted by a later call of the service.
C3_AsymmetricFallback ==
    /\ Len(doc_state.instances) = Len(shapes)
    /\ (Len(shapes) >= 1 /\ shapes[1] \in Malformed)
           => doc_state.instances[1] = <<>>
    /\ (Len(shapes) >= 2 /\ shapes[2] \in Malformed)
           => doc_state.instances[2] = doc_state.instances[1]
    /\ raised \in {"none", "ValueError", "DecodeError", "TransportError"}
    /\ (shapes # <<>> /\ pc = "aborted")
           => raised = "TransportError" /\ Len(llm_calls) = Len(shapes) + 1

\* Detection parsed a non-empty list, Classification's response was
\* malformed, and the run returned Detection's list.
C3_Witness ==
    /\ pc = "returned"
    /\ shapes = <<"array", "unparseable">>
    /\ doc_state.instances[1] # <<>>
    /\ doc_state.instances[2] = doc_state.instances[1]
    /\ result[2] = doc_state.instances[1]

\* C4 as stated: after Classification, every Finding of the last entry
\* carries a taxonomy category and none has category "none", for every
\* response.
C4_Original ==
    pc \in {"END", "returned"} => Categorised(Last(doc_state.instances))

\* C4 as amended: Classification's parser appends the prior entry unchanged
\* when the response holds no parseable array, and otherwise exactly the
\* array of the response, so that the last entry is categorised whenever the
\* response parses and the array in it is.
C4_Amended ==
    [][pc = "PHI Rationale: parse" =>
          /\ response_shape(content) \in Malformed
                 => Last(doc_state'.instances) = Last(doc_state.instances)
          /\ response_shape(content) \notin Malformed
                 => /\ Last(doc_state'.instances) = response_array(content)
                    /\ Categorised(response_array(content))
                           => Categorised(Last(doc_state'.instances))
      ]_vars

\* The fallback path left uncategorised Findings in the last entry.
C4_Witness ==
    /\ pc = "END"
    /\ shapes[2] = "unparseable"
    /\ Last(doc_state.instances) # <<>>
    /\ ~Categorised(Last(doc_state.instances))

\* C5: the router selects OCR for png, PDF Parser for pdf and CSV Parser for
\* csv; for any other tag it raises, and the run is aborted with no extractor
\* run, text unwritten, no service call and an empty history.
C5_Router ==
    /\ Len(visited) >= 2 =>
          /\ doc_state.file_ext = "png" => visited[2] = "OCR"
          /\ doc_state.file_ext = "pdf" => visited[2] = "PDF Parser"
          /\ doc_state.file_ext = "csv" => visited[2] = "CSV Parser"
    /\ (doc_state.file_ext \notin {"png", "pdf", "csv"} /\ pc # "START") =>
          /\ pc = "aborted"
          /\ raised = "ValueError"
          /\ visited = <<"input_router">>
          /\ doc_state.text = <<>>
          /\ llm_calls = <<>>
          /\ doc_state.instances = <<>>

\* A run on an unsupported tag has been aborted by the router.
C5_Witness ==
    /\ doc_state.file_ext = "txt"
    /\ pc = "aborted"
    /\ raised = "ValueError"
    /\ visited = <<"input_router">>

\* The order of the nodes of a run on tag file_ext.
NodeOrder(file_ext) ==
    <<"input_router", input_router(file_ext), "PHI Identifier", "PHI Rationale">>

\* C6: the nodes run in the order router, one extractor, Detection,
\* Classification, none twice; each of the two stages calls the service
\* once; and Classification sends the entry Detection appended.
C6_StageOrder ==
    /\ IsPrefix(visited, NodeOrder(doc_state.file_ext))
    /\ Len(llm_calls) <= 2
    /\ \A k \in 1..Len(llm_calls) :
           llm_calls[k].node = NodeOrder(doc_state.file_ext)[k + 2]
    /\ pc \in {"END", "returned"} =>
          /\ visited = NodeOrder(doc_state.file_ext)
          /\ Len(llm_calls) = 2
          /\ llm_calls[1].text = doc_state.text
          /\ llm_calls[2].instances = doc_state.instances[1]

\* A completed run in which Classification was sent a non-empty list and
\* returned another.
C6_Witness ==
    /\ pc = "returned"
    /\ visited = <<"input_router", "CSV Parser", "PHI Identifier", "PHI Rationale">>
    /\ llm_calls[2].instances # <<>>
    /\ doc_state.instances[2] # doc_state.instances[1]

\* C9: the entry Detection appends for a response body is the same for every
\* value of exclude_filter; the filter shows only in the prompt sent.
C9_FilterAdvisory ==
    [][pc = "PHI Identifier: parse" =>
          /\ \A f \in Filters :
                 doc_state'.instances
                     = Append(doc_state.instances, phi_identifier_entry(content, f))
          /\ llm_calls[1].exclusion = get_exclusion(doc_state.exclude_filter)
          /\ llm_calls[1].text = doc_state.text
      ]_vars

\* Detection appended a Finding whose type the filter excludes.
C9_Witness ==
    /\ pc = "PHI Rationale"
    /\ doc_state.exclude_filter = <<"Names">>
    /\ llm_calls[1].exclusion # <<>>
    /\ \E k \in 1..Len(doc_state.instances[1]) :
           doc_state.instances[1][k]["type"] = "Names"

(***************************************************************************)
(* Claims about the span resolver, checked under SpecHighlight.            *)
(***************************************************************************)
spans == hl.instances_with_positions

\* The spans of a run of the loops on text and phi_instances.
highlight_spans(text, phi_instances) ==
    resolve(hl_call(text, phi_instances)).instances_with_positions

\* What a span says of the text: its offsets, value and type.
Proj(ss) ==
    [k \in 1..Len(ss) |-> [start |-> ss[k].start, end |-> ss[k].end,
                           value |-> ss[k].value, phi_type |-> ss[k].phi_type]]

\* phi_instances with every claimed start/end replaced by those of c.
Reclaim(phi_instances, c) ==
    [k \in 1..Len(phi_instances) |-> Finding(phi_instances[k]["value"], c)]

\* phi_instances without its j-th Finding.
RemoveAt(phi_instances, j) ==
    SubSeq(phi_instances, 1, j - 1) \o SubSeq(phi_instances, j + 1, Len(phi_instances))

\* The ranges [p, p + n) and [e.start, e.end) share an offset.
Intersects(p, n, e) == \E x \in p..(p + n - 1) : e.start <= x /\ x < e.end

\* The for loop is done with the j-th Finding.
Processed(j) == j < hl.i \/ (j = hl.i /\ hl.pc # "while")

\* The spans accepted for Findings before the j-th.
Prior(j) == {spans[k] : k \in {k \in 1..Len(spans) : spans[k].i < j}}

\* The occurrences of v in the text that intersect no span accepted before
\* the j-th Finding was taken.
FreeOccurrences(v, j) ==
    {p \in occurrences(hl.text, v, 0) : \A e \in Prior(j) : ~Intersects(p, Len(v), e)}

SpansOf(j) == {k \in 1..Len(spans) : spans[k].i = j}

\* C1: whenever the resolver is at rest or running, the accepted spans are
\* pairwise non-overlapping: of two distinct spans one ends at or before the
\* start of the other.
C1_NonOverlap ==
    \A a, b \in 1..Len(spans) :
        a # b => spans[a].end <= spans[b].start \/ spans[b].end <= spans[a].start

\* Two spans were accepted, one of them behind the first occurrence of its
\* value, which an accepted span covered.
C1_Witness ==
    /\ hl.pc = "sorted"
    /\ Len(spans) = 2
    /\ \E k \in 1..2 : spans[k].start > find(hl.text, spans[k].value, 0)

\* C7: every accepted span lies where the text holds its value,
\* text[start:end] = value and end - start = len(value), and the accepted
\* spans are the same whatever start/end the Findings claim.
C7_OffsetsRecomputed ==
    /\ \A k \in 1..Len(spans) :
           /\ 0 <= spans[k].start /\ spans[k].end <= Len(hl.text)
           /\ slice(hl.text, spans[k].start, spans[k].end) = spans[k].value
           /\ spans[k].end - spans[k].start = Len(spans[k].value)
    /\ hl.pc = "sort" =>
           \A c \in ClaimedOffsets \cup {<<0, 0>>, <<2, 1>>} :
               Proj(spans) = Proj(highlight_spans(hl.text, Reclaim(hl.phi_instances, c)))

\* A span was accepted at offsets other than the ones its Finding claims.
C7_Witness ==
    /\ hl.pc = "sort"
    /\ \E k \in 1..Len(spans) :
           /\ spans[k].start # spans[k].original_instance["start"]
           /\ spans[k].end # spans[k].original_instance["end"]
           /\ spans[k].value # <<>>

\* The j-th Finding, whose (searched) value is v, has no occurrence free of
\* the accepted spans, contributes no span, and the spans are those of the
\* list without it.
SilentlyOmitted(j, v) ==
    FreeOccurrences(v, j) = {} =>
        /\ SpansOf(j) = {}
        /\ hl.pc = "sort" =>
               Proj(spans) = Proj(highlight_spans(hl.text, RemoveAt(hl.phi_instances, j)))

\* C8 as stated: a Finding whose value has no occurrence in the text, or
\* only occurrences that intersect accepted spans, contributes no span, and
\* the other Findings are resolved as if it were not in the list.
C8_Original ==
    \A j \in 1..Len(hl.phi_instances) :
        Processed(j) => SilentlyOmitted(j, hl.phi_instances[j]["value"])

\* C8 as amended: the same of the value stripped of leading and trailing
\* whitespace, which is what the resolver searches for.
C8_Amended ==
    \A j \in 1..Len(hl.phi_instances) :
        Processed(j) => SilentlyOmitted(j, strip(hl.phi_instances[j]["value"]))

\* The first Finding's value is absent from the text: it has no span, and the
\* Finding after it has a span of positive length.
C8_Witness ==
    /\ hl.pc = "sort"
    /\ Len(hl.phi_instances) >= 2
    /\ has_value(hl.phi_instances[1])
    /\ strip(hl.phi_instances[1]["value"]) # <<>>
    /\ occurrences(hl.text, strip(hl.phi_instances[1]["value"]), 0) = {}
    /\ SpansOf(1) = {}
    /\ \E k \in SpansOf(2) : spans[k].end > spans[k].start

\* The second Finding's value occurs in the text, but only under the span
\* accepted for the first: it has no span.
C8_WitnessCovered ==
    /\ hl.pc = "sort"
    /\ Len(hl.phi_instances) >= 2
    /\ occurrences(hl.text, strip(hl.phi_instances[2]["value"]), 0) # {}
    /\ FreeOccurrences(strip(hl.phi_instances[2]["value"]), 2) = {}
    /\ SpansOf(1) # {}
    /\ SpansOf(2) = {}

\* The j-th Finding, whose (searched) value is v, has exactly one span, at
\* the leftmost occurrence of v free of the spans accepted before it, or no
\* span if there is none or the Finding has no value.
LeftmostFree(j, v) ==
    IF has_value(hl.phi_instances[j]) /\ FreeOccurrences(v, j) # {}
    THEN \E k \in SpansOf(j) :
             /\ SpansOf(j) = {k}
             /\ spans[k].start = Min(FreeOccurrences(v, j))
             /\ spans[k].end = spans[k].start + Len(v)
    ELSE SpansOf(j) = {}

\* C10 as stated: in list order, each Finding is assigned the leftmost
\* occurrence of its value that intersects no span accepted before, and at
\* most one span.
C10_Original ==
    \A j \in 1..Len(hl.phi_instances) :
        Processed(j) => LeftmostFree(j, hl.phi_instances[j]["value"])

\* C10 as amended: the same of the value stripped of leading and trailing
\* whitespace, for the Findings that have a non-empty value.
C10_Amended ==
    \A j \in 1..Len(hl.phi_instances) :
        Processed(j) => LeftmostFree(j, strip(hl.phi_instances[j]["value"]))

\* Two Findings claimed an overlapping range: the earlier one kept it and the
\* later one was given an occurrence further right.
C10_Witness ==
    /\ hl.pc = "sort"
    /\ Len(spans) = 2
    /\ spans[1].i = 1 /\ spans[2].i = 2
    /\ spans[2].start > find(hl.text, spans[2].value, 0)
    /\ Intersects(find(hl.text, spans[2].value, 0), Len(spans[2].value), spans[1])

(***************************************************************************)
(* Markup insertion, lines 208-229.                                        *)
(***************************************************************************)

\* The markup of a span around the piece of text it is put around.
Wrapped(span, piece) ==
    span_open \o tooltip_info(span) \o span_open_end \o piece \o span_close

\* The text from offset p on with every span of ss wrapped around the text of
\* its range: the text is walked left to right and is itself left unchanged.
RECURSIVE Marked(_, _, _)
Marked(text, ss, p) ==
    LET here == SelectSeq(ss, LAMBDA x : x.start = p /\ x.end = p)
        starting == {k \in 1..Len(ss) : ss[k].start = p /\ ss[k].end > p}
    IN  Concat([k \in 1..Len(here) |-> Wrapped(here[k], <<>>)])
        \o (IF p >= Len(text) THEN <<>>
            ELSE IF starting # {}
            THEN LET k == CHOOSE k \in starting : TRUE
                 IN  Wrapped(ss[k], slice(text, p, ss[k].end))
                     \o Marked(text, ss, ss[k].end)
            ELSE <<text[p + 1]>> \o Marked(text, ss, p + 1))

\* C11: the spans are spliced in descending order of start at their original
\* offsets; when a span is about to be spliced the working text holds its
\* value at [start, end); and the text returned is the original text with
\* each span wrapped around its own value, so that taking the markup out
\* gives the original text back.
C11_Original ==
    /\ hl.pc = "sorted" =>
           \A a, b \in 1..Len(spans) : a < b => spans[a].start >= spans[b].start
    /\ (hl.pc = "sorted" /\ hl.n < Len(spans)) =>
           /\ spans[hl.n + 1].end <= Len(hl.highlighted_text)
           /\ slice(hl.highlighted_text, spans[hl.n + 1].start, spans[hl.n + 1].end)
                  = spans[hl.n + 1].value
    /\ (hl.pc = "return" /\ hl.phi_instances # <<>>) =>
           hl.highlighted_text = Marked(hl.text, spans, 0)
    /\ (hl.pc = "return" /\ hl.phi_instances = <<>>) =>
           hl.highlighted_text = hl.text

\* C11 in the runs that accept no zero-length span: there the statement of
\* C11 holds, so that it fails only through the zero-length span of C13.
C11_PositiveSpans ==
    (\A k \in 1..Len(spans) : spans[k].start < spans[k].end) => C11_Original

\* Two spans of positive length were spliced and the text was returned.
C11_PositiveWitness ==
    /\ hl.pc = "return"
    /\ Len(spans) = 2
    /\ \A k \in 1..2 : spans[k].start < spans[k].end
    /\ hl.n = 2

(***************************************************************************)
(* The document state across the pipeline, main.py lines 33-39 and 193-206.*)
(***************************************************************************)

Extractors == {"OCR", "PDF Parser", "CSV Parser"}

\* C12: the document state is append-only.  input, file_ext and
\* exclude_filter never change; text is written once, by the extractor the
\* router selected, before any entry of the history exists, and no later
\* stage changes it; every step leaves the history as it was or appends one
\* entry to it, so the entry Detection appended stays entry 0; and a run that
\* completes returns the text and the last of the two entries.
C12_AppendOnly ==
    [][/\ doc_state'.input = doc_state.input
       /\ doc_state'.file_ext = doc_state.file_ext
       /\ doc_state'.exclude_filter = doc_state.exclude_filter
       /\ (pc \in Extractors /\ pc' # "aborted") =>
              /\ pc = input_router(doc_state.file_ext)
              /\ Range(visited) \cap Extractors = {}
              /\ doc_state.instances = <<>>
              /\ doc_state'.instances = <<>>
       /\ pc \notin Extractors => doc_state'.text = doc_state.text
       /\ \/ doc_state'.instances = doc_state.instances
          \/ /\ Len(doc_state'.instances) = Len(doc_state.instances) + 1
             /\ IsPrefix(doc_state.instances, doc_state'.instances)
             /\ pc \in {"PHI Identifier: parse", "PHI Rationale: parse"}
       /\ pc' = "returned" =>
              /\ Len(doc_state'.instances) = 2
              /\ doc_state'.instances[1] = doc_state.instances[1]
              /\ result' = <<doc_state'.text, doc_state'.instances[2]>>]_vars

\* A run completed on a non-empty text whose Detection entry is non-empty and
\* differs from the Classification entry, and returned the latter.
C12_Witness ==
    /\ pc = "returned"
    /\ doc_state.text # <<>>
    /\ Len(doc_state.instances) = 2
    /\ doc_state.instances[1] # <<>>
    /\ doc_state.instances[2] # doc_state.instances[1]
    /\ result = <<doc_state.text, doc_state.instances[2]>>

(***************************************************************************)
(* The length of the accepted spans and the end of the occurrence search,  *)
(* lines 177-206.                                                          *)
(***************************************************************************)

\* C13: every accepted span has positive length, whatever the Findings whose
\* value passed the test of line 177, a value made only of whitespace
\* included.
C13_Original ==
    \A k \in 1..Len(spans) : spans[k].start < spans[k].end

\* The second half of C13, the search loop ends: an iteration that does not
\* leave the loop moves search_start up, and search_start never passes the
\* end of the text.
C13_SearchTerminates ==
    [][(hl.pc = "while" /\ hl'.pc = "while") =>
           /\ hl'.search_start > hl.search_start
           /\ hl'.search_start <= Len(hl.text)]_vars

\* The search went past a conflicting occurrence and stayed in the loop.
C13_SearchWitness ==
    hl.pc = "while" /\ hl.search_start > 0

====
